---- MODULE Spec2Model ----
(***************************************************************************)
(* Model of the image generator agent: ImageGeneratorAgent.run (main.py)   *)
(* driven as coroutines of one asyncio event loop by the gateway           *)
(* subscription set up in main(), with the gateway's step store, the       *)
(* generation capability (image_generator.py) and the IPFS upload          *)
(* (utils/utils.py, utils/ipfs_helper.py).                                 *)
(*                                                                         *)
(* Strings the code inspects character by character (input_query) are      *)
(* sequences of one-character strings.                                     *)
(***************************************************************************)
EXTENDS Naturals, Integers, Sequences, FiniteSets, TLC

\* ------------------------------------------------------------------ bounds
\* number of step events the gateway delivers (invocations of run)
MaxRuns == 2

Runs == 1..MaxRuns

\* identifiers of the steps the gateway holds
StepIds == {"s1", "s2"}

\* both steps belong to one task
TaskOf(s) == "t1"

\* the agent's DID carried by every event
AgentDid == "did:nv:agent"

\* ------------------------------------------------------- program constants
Pending == "Pending"
Completed == "Completed"
Failed == "Failed"

IPFS_PUBLIC_GATEWAY == "https://gateway.pinata.cloud/ipfs/"

\* ----------------------------------------------------------------- values
\* A Python value held by input_query / character_prompt:
\*   kind "missing" (key absent), "none" (None), "str" (chars), "int" (digits)
Val(k, cs) == [kind |-> k, chars |-> cs]
NoneVal == Val("none", <<>>)
\* a local that is not bound yet
Unset == Val("unset", <<>>)
Str(cs) == Val("str", cs)

\* bool(v) as Python's `not character_prompt` uses it
Truthy(v) ==
    \/ v.kind = "str" /\ v.chars # <<>>
    \/ v.kind = "int" /\ v.chars # <<"0">>

\* ------------------------------------------------------------- json.loads
IsWs(c) == c \in {" ", "\n"}
IsDigit(c) == c \in {"0", "7"}
Quote == "\""

RECURSIVE SkipWs(_, _)
SkipWs(s, i) == IF i <= Len(s) /\ IsWs(s[i]) THEN SkipWs(s, i + 1) ELSE i

\* index of the quote closing a string whose content starts at i; 0 when the
\* string is unterminated or holds a control character
RECURSIVE ScanString(_, _)
ScanString(s, i) ==
    IF i > Len(s) THEN 0
    ELSE IF s[i] = Quote THEN i
    ELSE IF s[i] = "\n" THEN 0
    ELSE ScanString(s, i + 1)

RECURSIVE ScanDigits(_, _)
ScanDigits(s, i) == IF i <= Len(s) /\ IsDigit(s[i]) THEN ScanDigits(s, i + 1) ELSE i

ParseFail == [ok |-> FALSE, val |-> <<>>, next |-> 0]

\* a JSON string starting at the quote s[i]
ParseString(s, i) ==
    IF i > Len(s) \/ s[i] # Quote THEN ParseFail
    ELSE LET j == ScanString(s, i + 1)
         IN IF j = 0 THEN ParseFail
            ELSE [ok |-> TRUE, val |-> SubSeq(s, i + 1, j - 1), next |-> j + 1]

\* a JSON number (integer) starting at s[i]; no leading zeros
ParseNumber(s, i) ==
    LET j == ScanDigits(s, i)
    IN IF j = i THEN ParseFail
       ELSE IF s[i] = "0" /\ j > i + 1 THEN ParseFail
       ELSE [ok |-> TRUE, val |-> SubSeq(s, i, j - 1), next |-> j]

\* the JSON literals, each with the text str() renders for its Python value
Literals ==
    {[text |-> <<"t", "r", "u", "e">>, str |-> <<"T", "r", "u", "e">>],
     [text |-> <<"f", "a", "l", "s", "e">>, str |-> <<"F", "a", "l", "s", "e">>],
     [text |-> <<"n", "u", "l", "l">>, str |-> <<"N", "o", "n", "e">>]}

\* the text of literal l stands at s[i]
LiteralAt(s, i, l) ==
    /\ i + Len(l.text) - 1 <= Len(s)
    /\ SubSeq(s, i, i + Len(l.text) - 1) = l.text

\* true, false or null starting at s[i]
ParseLiteral(s, i) ==
    IF \E l \in Literals : LiteralAt(s, i, l)
    THEN LET l == CHOOSE m \in Literals : LiteralAt(s, i, m)
         IN [ok |-> TRUE, val |-> l.str, next |-> i + Len(l.text)]
    ELSE ParseFail

\* a flat JSON value (string, non-negative integer, true, false, null); val
\* is str(value), the text an f-string renders
ParseValue(s, i) ==
    IF i > Len(s) THEN ParseFail
    ELSE IF s[i] = Quote THEN ParseString(s, i)
    ELSE IF IsDigit(s[i]) THEN ParseNumber(s, i)
    ELSE ParseLiteral(s, i)

\* dict[k] = v : a repeated key keeps its position and takes the new value
RECURSIVE DictSet(_, _, _)
DictSet(d, k, v) ==
    IF d = <<>> THEN << <<k, v>> >>
    ELSE IF Head(d)[1] = k THEN << <<k, v>> >> \o Tail(d)
    ELSE << Head(d) >> \o DictSet(Tail(d), k, v)

\* members of an object, s[i] being the quote opening the next key
RECURSIVE ParseMembers(_, _, _)
ParseMembers(s, i, acc) ==
    LET k == ParseString(s, i)
    IN IF ~k.ok THEN ParseFail
       ELSE LET c == SkipWs(s, k.next)
            IN IF c > Len(s) \/ s[c] # ":" THEN ParseFail
               ELSE LET v == ParseValue(s, SkipWs(s, c + 1))
                    IN IF ~v.ok THEN ParseFail
                       ELSE LET d == DictSet(acc, k.val, v.val)
                                e == SkipWs(s, v.next)
                            IN IF e > Len(s) THEN ParseFail
                               ELSE IF s[e] = "}" THEN [ok |-> TRUE, val |-> d, next |-> e + 1]
                               ELSE IF s[e] = "," THEN ParseMembers(s, SkipWs(s, e + 1), d)
                               ELSE ParseFail

\* json.loads on a text: the ordered items of the object, or a JSONDecodeError
json_loads(s) ==
    LET i == SkipWs(s, 1)
    IN IF i > Len(s) \/ s[i] # "{" THEN ParseFail
       ELSE LET j == SkipWs(s, i + 1)
                o == IF j <= Len(s) /\ s[j] = "}"
                     THEN [ok |-> TRUE, val |-> <<>>, next |-> j + 1]
                     ELSE ParseMembers(s, j, <<>>)
            IN IF o.ok /\ SkipWs(s, o.next) = Len(s) + 1 THEN o ELSE ParseFail

\* '\n'.join([f"{k}: {v}" for k, v in d.items()])
RECURSIVE JoinItems(_)
JoinItems(d) ==
    IF d = <<>> THEN <<>>
    ELSE LET line == Head(d)[1] \o <<":", " ">> \o Head(d)[2]
         IN IF Len(d) = 1 THEN line ELSE line \o <<"\n">> \o JoinItems(Tail(d))

\* step.get('input_query', '')
StepGetInputQuery(q) == IF q.kind = "missing" THEN Str(<<>>) ELSE q

StartsWith(cs, c) == cs # <<>> /\ cs[1] = c
EndsWith(cs, c) == cs # <<>> /\ cs[Len(cs)] = c

\* CharacterPrompt taking every payload as a free-form description
CharacterPrompt_NeverParses(q) == StepGetInputQuery(q)

\* the character_prompt computed from the fetched step's input_query
CharacterPrompt(q) ==
    LET input_query == StepGetInputQuery(q)
    IN IF input_query.kind = "str" /\ StartsWith(input_query.chars, "{")
                                   /\ EndsWith(input_query.chars, "}")
       THEN LET r == json_loads(input_query.chars)
            IN IF r.ok THEN Str(JoinItems(r.val)) ELSE NoneVal
       ELSE input_query

\* ----------------------------------------------------------- environment
\* the input_query payloads the gateway's steps carry
QMissing == Val("missing", <<>>)
QEmpty == Str(<<>>)
QFreeForm == Str(<<"a", " ", "k">>)
QNotJson == Str(<<"{", "x", "}">>)
QNoKeys == Str(<<"{", "}">>)
QObject == Str(<<"{", Quote, "h", Quote, ":", Quote, "r", Quote, ",", " ",
                 Quote, "e", Quote, ":", "7", "}">>)
QInt == Val("int", <<"7">>)

Queries == {QMissing, NoneVal, QEmpty, QFreeForm, QNotJson, QNoKeys, QObject, QInt}

Statuses == {Pending, Completed, Failed}

PriorRef == "prior-artifact"

\* the steps the gateway may hold: a Pending step carries any payload; the
\* payload of a step in another status is never looked at
StepConfigs ==
    [st : {Pending}, q : Queries] \cup [st : Statuses \ {Pending}, q : {QFreeForm}]

\* step s1 ranges over all of them, step s2 over a valid Pending step and a
\* Completed one
Step2Configs == {[st |-> Pending, q |-> QFreeForm], [st |-> Completed, q |-> QFreeForm]}

\* what upload_image_and_get_url may raise: image.save failing, or the
\* wrapped failure of the pin
UploadErrors == {"SaveError", "Failed to upload image to Pinata: PinError"}

\* a step as the gateway holds it before the agent touches it
GatewayStep(s, st, q) ==
    [task_id |-> TaskOf(s), step_status |-> st, input_query |-> q,
     output |-> IF st = Completed THEN "prior output" ELSE "",
     output_artifacts |-> IF st = Completed THEN <<PriorRef>> ELSE <<>>,
     is_last |-> FALSE]

NoStep == [task_id |-> "", step_status |-> "", input_query |-> NoneVal]
NoData == [step_id |-> "", task_id |-> "", did |-> ""]

\* ------------------------------------------------------------------ state
VARIABLES
    steps,             \* gateway: step_id -> step record
    pc,                \* run -> position in run()
    data,              \* run -> the event payload run() was invoked with
    running,           \* the coroutine the event loop is executing, 0 if idle
    ready,             \* the event loop's FIFO queue of runnable coroutines
    step,              \* run -> local `step` (result of get_step)
    character_prompt,  \* run -> local `character_prompt`
    image,             \* run -> local `image`
    ipfs_url,          \* run -> local `ipfs_url`
    e,                 \* run -> the exception caught by `except Exception as e`
    exc,               \* run -> the exception that escaped run(), "" if none
    io,                \* run -> state of the awaited log_task call
    calls,             \* run -> sequence of the external calls run() made
    files              \* names of the files in the working directory

vars == <<steps, pc, data, running, ready, step, character_prompt, image,
          ipfs_url, e, exc, io, calls, files>>

locals == <<step, character_prompt, image, ipfs_url, e>>

\* ------------------------------------------------------------ call records
GetStepCall(sid) == [op |-> "get_step", step_id |-> sid]

\* a TaskLog; the message is the sequence of the parts of its text
LogCall(tid, msg, lvl, st) ==
    [op |-> "log_task", task_id |-> tid, message |-> msg, level |-> lvl,
     task_status |-> st]

GenerateCall(prompt) == [op |-> "generate_image", prompt |-> prompt]

UploadCall(img, fname) == [op |-> "upload", image |-> img, filename |-> fname]

\* UpdateCall without the artifact reference in the payload
UpdateCall_NoArtifact(d, url) ==
    [op |-> "update_step", did |-> d.did, task_id |-> d.task_id,
     step_id |-> d.step_id,
     step |-> [step_id |-> d.step_id, task_id |-> d.task_id,
               step_status |-> Completed,
               output |-> "Image generated and uploaded to IPFS",
               is_last |-> TRUE,
               output_artifacts |-> <<>>]]

UpdateCall(d, url) ==
    [op |-> "update_step", did |-> d.did, task_id |-> d.task_id,
     step_id |-> d.step_id,
     step |-> [step_id |-> d.step_id, task_id |-> d.task_id,
               step_status |-> Completed,
               output |-> "Image generated and uploaded to IPFS",
               is_last |-> TRUE,
               output_artifacts |-> <<url>>]]

\* the image the pipeline produces for a prompt (the seed is fixed)
ImageOf(prompt) == <<"image of">> \o prompt.chars

\* the content identifier the pinning service returns for an image
CidOf(img) == <<"cid of">> \o img

\* IPFSHelper.get_ipfs_url
get_ipfs_url(cid) == <<IPFS_PUBLIC_GATEWAY>> \o cid

\* the gateway applying an update_step call to its record of the step
ApplyUpdate(rec, c) ==
    [rec EXCEPT !.step_status = c.step.step_status,
                !.output = c.step.output,
                !.is_last = c.step.is_last,
                !.output_artifacts = c.step.output_artifacts]

\* ------------------------------------------------------------------- Init
Init ==
    /\ steps \in {[s \in StepIds |-> GatewayStep(s, f[s].st, f[s].q)] :
                       f \in {g \in [StepIds -> StepConfigs] :
                                 g["s2"] \in Step2Configs}}
    /\ pc = [p \in Runs |-> "undelivered"]
    /\ data = [p \in Runs |-> NoData]
    /\ running = 0
    /\ ready = <<>>
    /\ step = [p \in Runs |-> NoStep]
    /\ character_prompt = [p \in Runs |-> Unset]
    /\ image = [p \in Runs |-> <<>>]
    /\ ipfs_url = [p \in Runs |-> <<>>]
    /\ e = [p \in Runs |-> ""]
    /\ exc = [p \in Runs |-> ""]
    /\ io = [p \in Runs |-> "none"]
    /\ calls = [p \in Runs |-> <<>>]
    /\ files = {}

\* ---------------------------------------------------------------- helpers
\* what an awaited log_task call resumes with: its return, or the gateway's
\* error raised at the await
LogResults == {"ok", "ProtocolError"}

\* run p makes the external call c
Call(p, c) == calls' = [calls EXCEPT ![p] = Append(@, c)]

\* run p leaves run(): by `return` ("returned") or by an escaping exception
\* ("raised"); the event loop becomes idle
Leave(p, how) ==
    /\ pc' = [pc EXCEPT ![p] = how]
    /\ running' = 0

\* `await log_task(...)`: the call is issued and the coroutine is suspended
\* until the gateway answers
AwaitLog(p, c, at) ==
    /\ Call(p, c)
    /\ pc' = [pc EXCEPT ![p] = at]
    /\ io' = [io EXCEPT ![p] = "pending"]
    /\ running' = 0

\* ---------------------------------------------------------------- actions
\* Deliver dropping the event when the event loop is busy with another step
Deliver_DropsWhenBusy(s) ==
    \E p \in Runs :
        /\ pc[p] = "undelivered"
        /\ \A m \in Runs : m < p => pc[m] # "undelivered"
        /\ data' = [data EXCEPT ![p] = [step_id |-> s, task_id |-> TaskOf(s),
                                        did |-> AgentDid]]
        /\ IF running = 0
           THEN /\ pc' = [pc EXCEPT ![p] = "queued"]
                /\ ready' = Append(ready, p)
           ELSE /\ pc' = [pc EXCEPT ![p] = "returned"]
                /\ UNCHANGED ready
        /\ UNCHANGED <<files, steps, running, locals, exc, io, calls>>

\* the subscription delivers a step event: a new coroutine run(data) is
\* scheduled on the event loop
Deliver(s) ==
    \E p \in Runs :
        /\ pc[p] = "undelivered"
        /\ \A m \in Runs : m < p => pc[m] # "undelivered"
        /\ pc' = [pc EXCEPT ![p] = "queued"]
        /\ data' = [data EXCEPT ![p] = [step_id |-> s, task_id |-> TaskOf(s),
                                        did |-> AgentDid]]
        /\ ready' = Append(ready, p)
        /\ UNCHANGED <<files, steps, running, locals, exc, io, calls>>

\* the idle event loop resumes the coroutine at the head of its ready queue
Dispatch ==
    /\ running = 0
    /\ ready # <<>>
    /\ running' = Head(ready)
    /\ ready' = Tail(ready)
    /\ UNCHANGED <<files, steps, pc, data, locals, exc, io, calls>>

\* step = get_step(data['step_id'])
GetStep(p) ==
    /\ running = p
    /\ pc[p] = "queued"
    /\ Call(p, GetStepCall(data[p].step_id))
    /\ \/ /\ step' = [step EXCEPT ![p] =
                        [task_id |-> steps[data[p].step_id].task_id,
                         step_status |-> steps[data[p].step_id].step_status,
                         input_query |-> steps[data[p].step_id].input_query]]
          /\ pc' = [pc EXCEPT ![p] = "check"]
          /\ UNCHANGED <<running, exc>>
       \/ /\ exc' = [exc EXCEPT ![p] = "ProtocolError"]
          /\ Leave(p, "raised")
          /\ UNCHANGED step
    /\ UNCHANGED <<files, steps, data, ready, character_prompt, image, ipfs_url, e, io>>

\* CheckStatus with the guard testing for Completed only, so that a step in
\* another non-Pending status is processed
CheckStatus_OnlyCompleted(p) ==
    /\ running = p
    /\ pc[p] = "check"
    /\ IF step[p].step_status = Completed
       THEN /\ Leave(p, "returned")
            /\ UNCHANGED <<io, calls>>
       ELSE AwaitLog(p, LogCall(step[p].task_id, <<"Starting image generation...">>,
                                "info", "none"), "await_start_log")
    /\ UNCHANGED <<files, steps, data, ready, locals, exc>>

\* if step_status != Pending: return; else await log_task('Starting ...')
CheckStatus(p) ==
    /\ running = p
    /\ pc[p] = "check"
    /\ IF step[p].step_status # Pending
       THEN /\ Leave(p, "returned")
            /\ UNCHANGED <<io, calls>>
       ELSE AwaitLog(p, LogCall(step[p].task_id, <<"Starting image generation...">>,
                                "info", "none"), "await_start_log")
    /\ UNCHANGED <<files, steps, data, ready, locals, exc>>

\* the idle event loop polls and finds the gateway's answer to an awaited
\* log_task call; the coroutine becomes runnable again
LogTaskComplete(p) ==
    /\ running = 0
    /\ io[p] = "pending"
    /\ io' = [io EXCEPT ![p] = "answered"]
    /\ ready' = Append(ready, p)
    /\ UNCHANGED <<files, steps, pc, data, running, locals, exc, calls>>

\* resumption after the start log, then the computation of character_prompt
AfterStartLog(p) ==
    /\ running = p
    /\ pc[p] = "await_start_log"
    /\ io[p] = "answered"
    /\ io' = [io EXCEPT ![p] = "none"]
    /\ \E r \in LogResults : IF r = "ok"
       THEN /\ character_prompt' = [character_prompt EXCEPT ![p] =
                                      CharacterPrompt(step[p].input_query)]
            /\ pc' = [pc EXCEPT ![p] = "validate"]
            /\ UNCHANGED <<running, exc>>
       ELSE /\ exc' = [exc EXCEPT ![p] = r]
            /\ Leave(p, "raised")
            /\ UNCHANGED character_prompt
    /\ UNCHANGED <<files, steps, data, ready, step, image, ipfs_url, e, calls>>

\* Validate testing for None only, so that an empty text reaches generation
Validate_NoneOnly(p) ==
    /\ running = p
    /\ pc[p] = "validate"
    /\ IF character_prompt[p].kind = "none"
       THEN AwaitLog(p, LogCall(step[p].task_id, <<"No character data provided.">>,
                                "error", Failed), "await_validation_log")
       ELSE /\ pc' = [pc EXCEPT ![p] = "generate"]
            /\ UNCHANGED <<running, io, calls>>
    /\ UNCHANGED <<files, steps, data, ready, locals, exc>>

\* if not character_prompt: await log_task('No character data provided.')
Validate(p) ==
    /\ running = p
    /\ pc[p] = "validate"
    /\ IF ~Truthy(character_prompt[p])
       THEN AwaitLog(p, LogCall(step[p].task_id, <<"No character data provided.">>,
                                "error", Failed), "await_validation_log")
       ELSE /\ pc' = [pc EXCEPT ![p] = "generate"]
            /\ UNCHANGED <<running, io, calls>>
    /\ UNCHANGED <<files, steps, data, ready, locals, exc>>

\* AfterValidationLog never handing the event loop back when run() returns
AfterValidationLog_KeepsLoop(p) ==
    /\ running = p
    /\ pc[p] = "await_validation_log"
    /\ io[p] = "answered"
    /\ io' = [io EXCEPT ![p] = "none"]
    /\ \E r \in LogResults : IF r = "ok"
       THEN pc' = [pc EXCEPT ![p] = "returned"] /\ UNCHANGED <<running, exc>>
       ELSE Leave(p, "raised") /\ exc' = [exc EXCEPT ![p] = r]
    /\ UNCHANGED <<files, steps, data, ready, locals, calls>>

\* resumption after the validation error log: return
AfterValidationLog(p) ==
    /\ running = p
    /\ pc[p] = "await_validation_log"
    /\ io[p] = "answered"
    /\ io' = [io EXCEPT ![p] = "none"]
    /\ \E r \in LogResults : IF r = "ok"
       THEN Leave(p, "returned") /\ UNCHANGED exc
       ELSE Leave(p, "raised") /\ exc' = [exc EXCEPT ![p] = r]
    /\ UNCHANGED <<files, steps, data, ready, locals, calls>>

\* GenerateBegin handing the generation to another thread and awaiting it, so
\* that the event loop is free while the image is generated
GenerateBegin_Yields(p) ==
    /\ running = p
    /\ pc[p] = "generate"
    /\ pc' = [pc EXCEPT ![p] = "generating"]
    /\ Call(p, GenerateCall(character_prompt[p]))
    /\ running' = 0
    /\ UNCHANGED <<files, steps, data, ready, locals, exc, io>>

\* image_generator.generate_image(character_prompt) is entered
GenerateBegin(p) ==
    /\ running = p
    /\ pc[p] = "generate"
    /\ pc' = [pc EXCEPT ![p] = "generating"]
    /\ Call(p, GenerateCall(character_prompt[p]))
    /\ UNCHANGED <<files, steps, data, running, ready, locals, exc, io>>

\* GenerateEnd marking the step Failed at the gateway when generation raises
GenerateEnd_MarksFailed(p) ==
    /\ running = p
    /\ pc[p] = "generating"
    /\ \/ /\ character_prompt[p].kind = "str"
          /\ image' = [image EXCEPT ![p] = ImageOf(character_prompt[p])]
          /\ pc' = [pc EXCEPT ![p] = "upload"]
          /\ UNCHANGED <<e, steps>>
       \/ /\ e' = [e EXCEPT ![p] = IF character_prompt[p].kind = "str"
                                   THEN "GenerationError" ELSE "TypeError"]
          /\ pc' = [pc EXCEPT ![p] = "except"]
          /\ steps' = [steps EXCEPT ![data[p].step_id].step_status = Failed]
          /\ UNCHANGED image
    /\ UNCHANGED <<files, data, running, ready, step, character_prompt,
                   ipfs_url, exc, io, calls>>

\* generate_image returns an image or raises; create_prompt raises a
\* TypeError on a prompt that is not a string
GenerateEnd(p) ==
    /\ running = p
    /\ pc[p] = "generating"
    /\ \/ /\ character_prompt[p].kind = "str"
          /\ image' = [image EXCEPT ![p] = ImageOf(character_prompt[p])]
          /\ pc' = [pc EXCEPT ![p] = "upload"]
          /\ UNCHANGED e
       \/ /\ e' = [e EXCEPT ![p] = IF character_prompt[p].kind = "str"
                                   THEN "GenerationError" ELSE "TypeError"]
          /\ pc' = [pc EXCEPT ![p] = "except"]
          /\ UNCHANGED image
    /\ UNCHANGED <<files, steps, data, running, ready, step, character_prompt,
                   ipfs_url, exc, io, calls>>

\* filename=f"{data['task_id']}.png", the temp_file_path of the upload
TempFile(p) == <<data[p].task_id, ".png">>

\* the working directory after upload_image_to_ipfs raised err: a failure of
\* the pin is followed by the finally clause, which removes the file, while
\* image.save stands before the try and its failure leaves whatever it had
\* written, or nothing
FilesAfter(fs, f, err) ==
    IF err = "SaveError" THEN {fs, fs \cup {f}} ELSE {fs \ {f}}

\* Upload handing control back to the event loop once the upload is done
Upload_Yields(p) ==
    /\ running = p
    /\ pc[p] = "upload"
    /\ Call(p, UploadCall(image[p], TempFile(p)))
    /\ \/ /\ ipfs_url' = [ipfs_url EXCEPT ![p] = get_ipfs_url(CidOf(image[p]))]
          /\ pc' = [pc EXCEPT ![p] = "update"]
          /\ files' = files \ {TempFile(p)}
          /\ UNCHANGED e
       \/ \E err \in UploadErrors :
            /\ e' = [e EXCEPT ![p] = err]
            /\ pc' = [pc EXCEPT ![p] = "except"]
            /\ files' \in FilesAfter(files, TempFile(p), err)
            /\ UNCHANGED ipfs_url
    /\ running' = 0
    /\ ready' = Append(ready, p)
    /\ UNCHANGED <<steps, data, step, character_prompt, image, exc, io>>

\* ipfs_url = upload_image_and_get_url(image, filename=f"{task_id}.png")
Upload(p) ==
    /\ running = p
    /\ pc[p] = "upload"
    /\ Call(p, UploadCall(image[p], TempFile(p)))
    /\ \/ /\ ipfs_url' = [ipfs_url EXCEPT ![p] = get_ipfs_url(CidOf(image[p]))]
          /\ pc' = [pc EXCEPT ![p] = "update"]
          /\ files' = files \ {TempFile(p)}
          /\ UNCHANGED e
       \/ \E err \in UploadErrors :
            /\ e' = [e EXCEPT ![p] = err]
            /\ pc' = [pc EXCEPT ![p] = "except"]
            /\ files' \in FilesAfter(files, TempFile(p), err)
            /\ UNCHANGED ipfs_url
    /\ UNCHANGED <<steps, data, running, ready, step, character_prompt, image,
                   exc, io>>

\* UpdateStep going on to the completion log when the gateway rejected the
\* update
UpdateStep_IgnoresFailure(p) ==
    /\ running = p
    /\ pc[p] = "update"
    /\ Call(p, UpdateCall(data[p], ipfs_url[p]))
    /\ pc' = [pc EXCEPT ![p] = "completion_log"]
    /\ \/ steps' = [steps EXCEPT ![data[p].step_id] =
                       ApplyUpdate(@, UpdateCall(data[p], ipfs_url[p]))]
       \/ UNCHANGED steps
    /\ UNCHANGED <<files, data, running, ready, step, character_prompt, image,
                   ipfs_url, e, exc, io>>

\* update_step(did, task_id, step_id, step={... Completed ...})
UpdateStep(p) ==
    /\ running = p
    /\ pc[p] = "update"
    /\ Call(p, UpdateCall(data[p], ipfs_url[p]))
    /\ \/ /\ steps' = [steps EXCEPT ![data[p].step_id] =
                          ApplyUpdate(@, UpdateCall(data[p], ipfs_url[p]))]
          /\ pc' = [pc EXCEPT ![p] = "completion_log"]
          /\ UNCHANGED e
       \/ /\ e' = [e EXCEPT ![p] = "ProtocolError"]
          /\ pc' = [pc EXCEPT ![p] = "except"]
          /\ UNCHANGED steps
    /\ UNCHANGED <<files, data, running, ready, step, character_prompt, image,
                   ipfs_url, exc, io>>

\* CompletionLog emitting the completion log without a task_status
CompletionLog_NoStatus(p) ==
    /\ running = p
    /\ pc[p] = "completion_log"
    /\ AwaitLog(p, LogCall(step[p].task_id,
                           <<"Image generation and upload to IPFS completed.">>,
                           "info", "none"), "await_completion_log")
    /\ UNCHANGED <<files, steps, data, ready, locals, exc>>

\* await log_task('Image generation and upload to IPFS completed.')
CompletionLog(p) ==
    /\ running = p
    /\ pc[p] = "completion_log"
    /\ AwaitLog(p, LogCall(step[p].task_id,
                           <<"Image generation and upload to IPFS completed.">>,
                           "info", Completed), "await_completion_log")
    /\ UNCHANGED <<files, steps, data, ready, locals, exc>>

\* resumption after the completion log: the try block ends, or the await
\* raises inside it
AfterCompletionLog(p) ==
    /\ running = p
    /\ pc[p] = "await_completion_log"
    /\ io[p] = "answered"
    /\ io' = [io EXCEPT ![p] = "none"]
    /\ \E r \in LogResults : IF r = "ok"
       THEN Leave(p, "returned") /\ UNCHANGED e
       ELSE /\ e' = [e EXCEPT ![p] = r]
            /\ pc' = [pc EXCEPT ![p] = "except"]
            /\ UNCHANGED running
    /\ UNCHANGED <<files, steps, data, ready, step, character_prompt, image,
                   ipfs_url, exc, calls>>

\* ExceptHandler reporting the failure twice: an update_step call marking the
\* step Failed is issued before the error log
ExceptHandler_AlsoUpdates(p) ==
    /\ running = p
    /\ pc[p] = "except"
    /\ calls' = [calls EXCEPT ![p] =
                   @ \o <<[op |-> "update_step", did |-> data[p].did,
                           task_id |-> data[p].task_id,
                           step_id |-> data[p].step_id,
                           step |-> [step_id |-> data[p].step_id,
                                     task_id |-> data[p].task_id,
                                     step_status |-> Failed,
                                     output |-> e[p],
                                     is_last |-> TRUE,
                                     output_artifacts |-> <<>>]],
                          LogCall(step[p].task_id,
                                  <<"Error during image generation: ", e[p]>>,
                                  "error", Failed)>>]
    /\ pc' = [pc EXCEPT ![p] = "await_error_log"]
    /\ io' = [io EXCEPT ![p] = "pending"]
    /\ running' = 0
    /\ UNCHANGED <<files, steps, data, ready, locals, exc>>

\* except Exception as e: await log_task(f'Error during image generation: {e}')
ExceptHandler(p) ==
    /\ running = p
    /\ pc[p] = "except"
    /\ AwaitLog(p, LogCall(step[p].task_id,
                           <<"Error during image generation: ", e[p]>>,
                           "error", Failed), "await_error_log")
    /\ UNCHANGED <<files, steps, data, ready, locals, exc>>

\* resumption after the handler's error log: return
AfterErrorLog(p) ==
    /\ running = p
    /\ pc[p] = "await_error_log"
    /\ io[p] = "answered"
    /\ io' = [io EXCEPT ![p] = "none"]
    /\ \E r \in LogResults : IF r = "ok"
       THEN Leave(p, "returned") /\ UNCHANGED exc
       ELSE Leave(p, "raised") /\ exc' = [exc EXCEPT ![p] = r]
    /\ UNCHANGED <<files, steps, data, ready, locals, calls>>

Next ==
    \/ \E s \in StepIds : Deliver(s)
    \/ Dispatch
    \/ \E p \in Runs : GetStep(p)
    \/ \E p \in Runs : CheckStatus(p)
    \/ \E p \in Runs : LogTaskComplete(p)
    \/ \E p \in Runs : AfterStartLog(p)
    \/ \E p \in Runs : Validate(p)
    \/ \E p \in Runs : AfterValidationLog(p)
    \/ \E p \in Runs : GenerateBegin(p)
    \/ \E p \in Runs : GenerateEnd(p)
    \/ \E p \in Runs : Upload(p)
    \/ \E p \in Runs : UpdateStep(p)
    \/ \E p \in Runs : CompletionLog(p)
    \/ \E p \in Runs : AfterCompletionLog(p)
    \/ \E p \in Runs : ExceptHandler(p)
    \/ \E p \in Runs : AfterErrorLog(p)

Spec == Init /\ [][Next]_vars

\* ============================================================== properties
\* the calls of run p to operation op, in order
CallsOf(p, op) == SelectSeq(calls[p], LAMBDA c : c.op = op)

LogCalls(p) == CallsOf(p, "log_task")
ErrorLogs(p) == SelectSeq(calls[p], LAMBDA c : c.op = "log_task" /\ c.level = "error")

\* position of the first call of run p to op, 0 if none
FirstCall(p, op) ==
    IF \E i \in DOMAIN calls[p] : calls[p][i].op = op
    THEN CHOOSE i \in DOMAIN calls[p] :
            /\ calls[p][i].op = op
            /\ \A j \in DOMAIN calls[p] : calls[p][j].op = op => i <= j
    ELSE 0

\* run p has left run()
Finished(p) == pc[p] \in {"returned", "raised"}

\* run p has fetched its step
Fetched(p) == step[p] # NoStep

StartLog(p) == LogCall(step[p].task_id, <<"Starting image generation...">>, "info", "none")
DoneLog(p) ==
    LogCall(step[p].task_id, <<"Image generation and upload to IPFS completed.">>,
            "info", Completed)
NoDataLog(p) == LogCall(step[p].task_id, <<"No character data provided.">>, "error", Failed)
ErrorLog(p) ==
    LogCall(step[p].task_id, <<"Error during image generation: ", e[p]>>,
            "error", Failed)

\* ---------------------------------------------------------------------- C1
\* C1: a run whose fetched step has a step_status other than Pending makes
\* no log_task, update_step, generate_image or upload call (its only call is
\* the get_step read), and it returns without raising.
C1_NoOpOnNonPending ==
    \A p \in Runs :
        (Fetched(p) /\ step[p].step_status # Pending) =>
            /\ calls[p] = <<GetStepCall(data[p].step_id)>>
            /\ pc[p] \in {"check", "returned"}
            /\ exc[p] = ""

\* a run on a Failed step has returned
C1_Witness ==
    \E p \in Runs :
        /\ pc[p] = "returned"
        /\ step[p].step_status = Failed
        /\ steps[data[p].step_id].step_status = Failed

\* ---------------------------------------------------------------------- C2
\* run p went through run() without any call raising
HappyRun(p) ==
    /\ pc[p] = "returned"
    /\ step[p].step_status = Pending
    /\ Truthy(character_prompt[p])
    /\ e[p] = ""
    /\ exc[p] = ""

\* C2: a run on a Pending step with a non-empty description in which
\* generation, upload (returning reference r) and every gateway call succeed
\* makes exactly two log calls, the start info log then the completion info
\* log with task_status Completed, and exactly one update_step call, with
\* step_status Completed, is_last true and output_artifacts = [r]; the update
\* call precedes the completion log.
C2_HappyPath ==
    \A p \in Runs :
        HappyRun(p) =>
            /\ LogCalls(p) = <<StartLog(p), DoneLog(p)>>
            /\ Len(CallsOf(p, "update_step")) = 1
            /\ LET u == CallsOf(p, "update_step")[1]
               IN /\ u.step.step_status = Completed
                  /\ u.step.is_last = TRUE
                  /\ u.step.output_artifacts = <<ipfs_url[p]>>
                  /\ u.step_id = data[p].step_id
            /\ ipfs_url[p] = get_ipfs_url(CidOf(ImageOf(character_prompt[p])))
            /\ calls[p][Len(calls[p])] = DoneLog(p)
            /\ FirstCall(p, "update_step") = Len(calls[p]) - 1

\* a run on the structured payload has completed
C2_Witness ==
    \E p \in Runs :
        /\ HappyRun(p)
        /\ step[p].input_query = QObject
        /\ steps[data[p].step_id].output_artifacts = <<ipfs_url[p]>>

\* ---------------------------------------------------------------------- C3
\* what generate_image and the upload raise
CapabilityErrors == {"GenerationError", "TypeError"} \cup UploadErrors

\* generate_image raised, or it succeeded and the upload raised, in run p
CapabilityFailed(p) == e[p] \in CapabilityErrors

\* the part of C3 that does not depend on the answer to the error log
C3_Reported(p) ==
    /\ ErrorLogs(p) = <<ErrorLog(p)>>
    /\ LogCalls(p) = <<StartLog(p), ErrorLog(p)>>
    /\ Len(CallsOf(p, "update_step")) = 0
    /\ Len(CallsOf(p, "generate_image")) = 1
    /\ Len(CallsOf(p, "upload")) = IF e[p] \in UploadErrors THEN 1 ELSE 0

\* C3 as stated: after generate_image or the upload raised, run() emits
\* exactly one error log with the caught error's message and task_status
\* Failed, makes no update_step call, retries nothing and returns normally.
C3_Original ==
    \A p \in Runs :
        (CapabilityFailed(p) /\ Finished(p)) =>
            C3_Reported(p) /\ pc[p] = "returned"

\* C3 (amended): as stated, except that run() returns normally only when the
\* error log call itself succeeds; when that log_task call fails, its
\* ProtocolError escapes run().
C3_CapabilityFailure ==
    \A p \in Runs :
        (CapabilityFailed(p) /\ Finished(p)) =>
            /\ C3_Reported(p)
            /\ calls[p][Len(calls[p])] = ErrorLog(p)
            /\ \/ pc[p] = "returned" /\ exc[p] = ""
               \/ pc[p] = "raised" /\ exc[p] = "ProtocolError"

\* a run whose upload raised has returned, another's generation raised
C3_Witness ==
    \E p \in Runs :
        /\ pc[p] = "returned"
        /\ e[p] \in UploadErrors
        /\ \E q \in Runs : Finished(q) /\ e[q] = "GenerationError"

\* ---------------------------------------------------------------------- C4
\* the payloads C4 names: missing, None, empty, brace-delimited but
\* unparseable, an object with no keys
InvalidQueries == {QMissing, NoneVal, QEmpty, QNotJson, QNoKeys}

\* run p has computed its character_prompt
Normalized(p) == character_prompt[p] # Unset

\* C4: a run on a Pending step whose normalized description is empty or null
\* emits exactly one error log, "No character data provided." with
\* task_status Failed, and makes no update_step, generate_image or upload
\* call; the payloads C4 names all normalize to an empty or null description,
\* and no parse failure escapes run().
C4_ValidationFailure ==
    \A p \in Runs :
        /\ (Normalized(p) /\ step[p].input_query \in InvalidQueries) =>
               ~Truthy(character_prompt[p])
        /\ exc[p] \in {"", "ProtocolError"}
        /\ (Normalized(p) /\ ~Truthy(character_prompt[p]) /\ Finished(p)) =>
               /\ step[p].step_status = Pending
               /\ ErrorLogs(p) = <<NoDataLog(p)>>
               /\ LogCalls(p) = <<StartLog(p), NoDataLog(p)>>
               /\ Len(CallsOf(p, "update_step")) = 0
               /\ Len(CallsOf(p, "generate_image")) = 0
               /\ Len(CallsOf(p, "upload")) = 0

\* a run on the brace-delimited, unparseable payload has returned after the
\* error log
C4_Witness ==
    \E p \in Runs :
        /\ pc[p] = "returned"
        /\ step[p].input_query = QNotJson
        /\ character_prompt[p] = NoneVal
        /\ ErrorLogs(p) = <<NoDataLog(p)>>

\* ---------------------------------------------------------------------- C5
\* run p has entered generate_image
HasGenerated(p) == Len(CallsOf(p, "generate_image")) > 0

\* the gateway's step of run p is Pending with a description that passes
\* validation
ValidPending(p) ==
    /\ data[p] # NoData
    /\ steps[data[p].step_id].step_status = Pending
    /\ Truthy(CharacterPrompt(steps[data[p].step_id].input_query))

Generating == {p \in Runs : pc[p] = "generating"}

\* C5: the generate_image invocations of concurrently delivered step events
\* never overlap: at most one is in progress in every state, the one of the
\* coroutine the event loop is executing, and an invocation starts only when
\* no other is in progress, so that start times are strictly ordered.
C5_Exclusivity ==
    /\ [](/\ Cardinality(Generating) <= 1
          /\ \A p \in Generating : running = p)
    /\ [][\A p \in Runs :
            (pc[p] # "generating" /\ pc'[p] = "generating") =>
                \A q \in Runs \ {p} :
                    pc[q] # "generating" /\ pc'[q] # "generating"]_vars

\* one run is generating while another, delivered meanwhile and already
\* answered by the gateway, is runnable and will generate next
C5_Witness ==
    \E p, q \in Runs :
        /\ p # q
        /\ pc[p] = "generating"
        /\ pc[q] = "await_start_log" /\ io[q] = "answered"
        /\ ValidPending(q)
        /\ \E i \in DOMAIN ready : ready[i] = q

\* ---------------------------------------------------------------------- C6
\* number of generate_image invocations made for step s
GenerationsOf(s) ==
    Cardinality({p \in Runs : data[p].step_id = s /\ HasGenerated(p)})

\* C6: over any interleaving of delivered step events, redeliveries of a
\* step_id included, at most one generation invocation occurs for each step.
C6_AtMostOnce == \A s \in StepIds : GenerationsOf(s) <= 1

\* ---------------------------------------------------------------------- C7
\* run p issued the Completed update with a non-empty output_artifacts and
\* the gateway accepted it
CompletedOutcome(p) ==
    /\ \E i \in DOMAIN calls[p] :
          /\ calls[p][i].op = "update_step"
          /\ calls[p][i].step.step_status = Completed
          /\ calls[p][i].step.output_artifacts # <<>>
    /\ \E i \in DOMAIN calls[p] : calls[p][i] = DoneLog(p)

\* run p emitted an error log with task_status Failed
FailedOutcome(p) ==
    \E i \in DOMAIN calls[p] :
        /\ calls[p][i].op = "log_task"
        /\ calls[p][i].level = "error"
        /\ calls[p][i].task_status = Failed

\* C7: a run on a Pending step that returns has exactly one of the two
\* terminal outcomes, the Completed update or the Failed error log, and no
\* run has both.
C7_ExactlyOneOutcome ==
    \A p \in Runs :
        (Fetched(p) /\ step[p].step_status = Pending) =>
            /\ ~(CompletedOutcome(p) /\ FailedOutcome(p))
            /\ pc[p] = "returned" => (CompletedOutcome(p) \/ FailedOutcome(p))

\* ---------------------------------------------------------------------- C8
\* C8: a failure of a gateway call (get_step, log_task, update_step) is never
\* caught by run() and never converted into an error log entry: it escapes.
C8_GatewayFailuresPropagate ==
    \A p \in Runs :
        /\ e[p] # "ProtocolError"
        /\ \A i \in DOMAIN calls[p] :
              calls[p][i].op = "log_task" =>
                  calls[p][i].message # <<"Error during image generation: ",
                                          "ProtocolError">>

\* ---------------------------------------------------------------------- C9
\* run p is on a failure path: validation, generation or upload failed
FailurePath(p) ==
    \/ Normalized(p) /\ ~Truthy(character_prompt[p])
    \/ CapabilityFailed(p)

\* no run for the step of run p has called update_step
NoUpdateFor(p) ==
    \A q \in Runs :
        data[q].step_id = data[p].step_id => Len(CallsOf(q, "update_step")) = 0

\* C9: a run on a failure path (validation, generation or upload failure)
\* makes no update_step call and none of its steps changes the gateway's
\* record, so that a step no run has updated is still Pending with its prior
\* output and output_artifacts; a step's status only ever moves from Pending
\* to Completed.
C9_FailureLeavesStep ==
    /\ [](\A p \in Runs :
            FailurePath(p) =>
                /\ Len(CallsOf(p, "update_step")) = 0
                /\ NoUpdateFor(p) =>
                      /\ steps[data[p].step_id].step_status = Pending
                      /\ steps[data[p].step_id].output = ""
                      /\ steps[data[p].step_id].output_artifacts = <<>>)
    /\ [][/\ \A p \in Runs :
                (FailurePath(p)' /\ pc'[p] # pc[p]) => steps' = steps
          /\ \A s \in StepIds :
                steps'[s].step_status # steps[s].step_status =>
                    /\ steps[s].step_status = Pending
                    /\ steps'[s].step_status = Completed]_vars

\* a run whose generation or upload failed has returned and its step is still
\* Pending, while a run on another step has completed it
C9_Witness ==
    \E p, q \in Runs :
        /\ pc[p] = "returned"
        /\ CapabilityFailed(p)
        /\ steps[data[p].step_id].step_status = Pending
        /\ data[q].step_id # data[p].step_id
        /\ HappyRun(q)
        /\ steps[data[q].step_id].step_status = Completed

\* --------------------------------------------------------------------- C10
\* the steps of the liveness specification: s1 Pending with an empty payload,
\* s2 Pending with a valid one
LiveInit ==
    /\ Init
    /\ steps["s1"].step_status = Pending
    /\ steps["s1"].input_query = QEmpty
    /\ steps["s2"].step_status = Pending

\* every step but the delivery of a new event
Progress ==
    \/ Dispatch
    \/ \E p \in Runs :
          \/ GetStep(p) \/ CheckStatus(p) \/ LogTaskComplete(p)
          \/ AfterStartLog(p) \/ Validate(p) \/ AfterValidationLog(p)
          \/ GenerateBegin(p) \/ GenerateEnd(p) \/ Upload(p) \/ UpdateStep(p)
          \/ CompletionLog(p) \/ AfterCompletionLog(p) \/ ExceptHandler(p)
          \/ AfterErrorLog(p)

\* the event loop keeps running its coroutines, every call into the
\* generation capability, the upload and the gateway returns or raises, and
\* every awaited log_task call is answered
LiveSpec == LiveInit /\ [][Next]_vars /\ WF_vars(Progress)

\* run p is delivered and has neither entered generate_image nor left run()
Waiting(p) == pc[p] \in {"queued", "check", "await_start_log", "validate", "generate"}

\* run p arrived while another run's generation is in progress
ArrivedWhileBusy(p) ==
    /\ pc[p] = "queued"
    /\ ValidPending(p)
    /\ \E q \in Runs \ {p} : pc[q] = "generating"

\* a run that left run() without generating did so for a reason other than
\* the generation capability being busy: a gateway failure, a step that is
\* not Pending, or a description that fails validation
NotFailedBecauseBusy ==
    \A p \in Runs :
        (Finished(p) /\ ~HasGenerated(p)) =>
            \/ pc[p] = "raised" /\ exc[p] = "ProtocolError"
            \/ Fetched(p) /\ step[p].step_status # Pending
            \/ Normalized(p) /\ ~Truthy(character_prompt[p])

\* runs are numbered in arrival order: no run has entered generate_image
\* while an earlier one, on a step that is Pending and valid, is still waiting
ServedInArrivalOrder ==
    \A p, q \in Runs :
        (p < q /\ HasGenerated(q)) => ~(Waiting(p) /\ ValidPending(p))

FailedRun(p) == Finished(p) /\ FailurePath(p)

\* run p holds nothing of the worker: the event loop is not executing it, it
\* is not inside generate_image, it awaits nothing and is not runnable
Released(p) ==
    /\ running # p
    /\ pc[p] # "generating"
    /\ io[p] = "none"
    /\ \A i \in DOMAIN ready : ready[i] # p

\* C11: a run that ended in a validation, generation or upload failure holds
\* nothing of the worker: the step that ends it leaves the event loop idle,
\* the next event is still accepted, and an event for a valid Pending step
\* that is queued after such a failure is run to its end, through
\* generate_image unless a gateway call of its own fails or its step is found
\* no longer Pending.
C11_FailureDoesNotPoison ==
    /\ [](\A p \in Runs :
            FailedRun(p) =>
                /\ Released(p)
                /\ (\E q \in Runs : pc[q] = "undelivered") =>
                       ENABLED (\E s \in StepIds : Deliver(s)))
    /\ [][\A p \in Runs : (~FailedRun(p) /\ FailedRun(p)') => running' = 0]_vars
    /\ \A q \in Runs :
          ((\E p \in Runs : FailedRun(p)) /\ pc[q] = "queued" /\ ValidPending(q)) ~>
              /\ Finished(q)
              /\ \/ HasGenerated(q)
                 \/ pc[q] = "raised" /\ exc[q] = "ProtocolError"
                 \/ pc[q] = "returned" /\ step[q].step_status # Pending

\* a run ended in an upload failure, one in a validation failure or a
\* generation failure ended too, and a later run on the step of the first
\* completed it
C11_Witness ==
    \E p, q \in Runs :
        /\ p < q
        /\ FailedRun(p)
        /\ e[p] \in UploadErrors \cup {"GenerationError"}
        /\ data[q].step_id = data[p].step_id
        /\ HappyRun(q)
        /\ steps[data[q].step_id].step_status = Completed

\* ============================================ the normalizer on JSON objects
\* number of members of the JSON objects given as input_query
MaxMembers == 2

Chars_hair == <<"h", "a", "i", "r">>
Chars_eyes == <<"e", "y", "e", "s">>
Chars_red == <<"r", "e", "d">>
Chars_blue == <<"b", "l", "u", "e">>

\* the keys of the objects; the last one holds a colon and a space
ObjectKeys == {Chars_hair, Chars_eyes, <<"a", ":", " ", "b">>}

\* a JSON string value: its text in the payload and the str() of its value
JsonString(cs) == [text |-> <<Quote>> \o cs \o <<Quote>>, str |-> cs]

\* the values of the objects: strings, a number, a boolean, null
ObjectValues ==
    {JsonString(Chars_red), JsonString(Chars_blue),
     [text |-> <<"7">>, str |-> <<"7">>]}
    \cup {l \in Literals : l.text \in {<<"t", "r", "u", "e">>, <<"n", "u", "l", "l">>}}

ObjectMembers == [key : ObjectKeys, value : ObjectValues]

\* the flat objects: up to MaxMembers members in insertion order, keys distinct
Objects ==
    UNION {{d \in [1..n -> ObjectMembers] :
               \A i, j \in 1..n : i # j => d[i].key # d[j].key} :
           n \in 0..MaxMembers}

\* how a producer writes the object: json.dumps separators, or compact ones
Styles == {[item |-> <<",", " ">>, key |-> <<":", " ">>],
           [item |-> <<",">>, key |-> <<":">>]}

RECURSIVE SerializeMembers(_, _)
SerializeMembers(d, st) ==
    IF d = <<>> THEN <<>>
    ELSE LET m == <<Quote>> \o Head(d).key \o <<Quote>> \o st.key \o Head(d).value.text
         IN IF Len(d) = 1 THEN m ELSE m \o st.item \o SerializeMembers(Tail(d), st)

\* the JSON text of object d
Serialize(d, st) == <<"{">> \o SerializeMembers(d, st) \o <<"}">>

\* whitespace a producer leaves around the text
Paddings == {[lead |-> <<>>, trail |-> <<>>],
             [lead |-> <<" ">>, trail |-> <<>>],
             [lead |-> <<>>, trail |-> <<"\n">>]}

Pad(cs, pd) == pd.lead \o cs \o pd.trail

\* the payloads of the normalizer specification: every object in every style
\* and padding, and the payloads that are not objects
NormQueries ==
    {Str(Pad(Serialize(d, st), pd)) : d \in Objects, st \in Styles, pd \in Paddings}
    \cup (Queries \ {QObject, QNoKeys})

\* one Pending step with a payload of NormQueries
NormInit ==
    /\ steps \in {[s \in StepIds |->
                     IF s = "s1" THEN GatewayStep(s, Pending, q)
                     ELSE GatewayStep(s, Completed, QFreeForm)] : q \in NormQueries}
    /\ pc = [p \in Runs |-> "undelivered"]
    /\ data = [p \in Runs |-> NoData]
    /\ running = 0
    /\ ready = <<>>
    /\ step = [p \in Runs |-> NoStep]
    /\ character_prompt = [p \in Runs |-> Unset]
    /\ image = [p \in Runs |-> <<>>]
    /\ ipfs_url = [p \in Runs |-> <<>>]
    /\ e = [p \in Runs |-> ""]
    /\ exc = [p \in Runs |-> ""]
    /\ io = [p \in Runs |-> "none"]
    /\ calls = [p \in Runs |-> <<>>]
    /\ files = {}

\* the one event of the normalizer specification, for the Pending step
DeliverOnce ==
    /\ pc[1] = "undelivered"
    /\ Deliver("s1")

NormNext == DeliverOnce \/ Progress

\* run() applied once to each payload
NormSpec == NormInit /\ [][NormNext]_vars

\* the texts of the objects as written without padding
ObjectTexts == {Serialize(d, st) : d \in Objects, st \in Styles}

\* the texts of the objects in any padding
PaddedObjectTexts ==
    {Pad(Serialize(d, st), pd) : d \in Objects, st \in Styles, pd \in Paddings}

\* one "key: value" line per member of d, in insertion order
RECURSIVE Lines(_)
Lines(d) ==
    IF d = <<>> THEN <<>>
    ELSE <<Head(d).key \o <<":", " ">> \o Head(d).value.str>> \o Lines(Tail(d))

\* the lines of a text joined by newline
RECURSIVE Joined(_)
Joined(ls) ==
    IF ls = <<>> THEN <<>>
    ELSE IF Len(ls) = 1 THEN Head(ls)
    ELSE Head(ls) \o <<"\n">> \o Joined(Tail(ls))

\* each text of an object, in any padding, with the description its object
\* is to be rendered as
Rendering ==
    {<<Pad(Serialize(d, st), pd), Joined(Lines(d))>> :
        d \in Objects, st \in Styles, pd \in Paddings}

\* text.split('\n'), cur being the line read so far
RECURSIVE SplitLines(_, _)
SplitLines(cs, cur) ==
    IF cs = <<>> THEN <<cur>>
    ELSE IF Head(cs) = "\n" THEN <<cur>> \o SplitLines(Tail(cs), <<>>)
    ELSE SplitLines(Tail(cs), Append(cur, Head(cs)))

\* position of the first ": " of a line, 0 if there is none
SeparatorAt(line) ==
    LET at == {i \in 1..(Len(line) - 1) : line[i] = ":" /\ line[i + 1] = " "}
    IN IF at = {} THEN 0 ELSE CHOOSE i \in at : \A j \in at : i <= j

\* line.split(': ', 1)
SplitLine(line) ==
    LET i == SeparatorAt(line)
    IN IF i = 0 THEN <<line>>
       ELSE <<SubSeq(line, 1, i - 1), SubSeq(line, i + 2, Len(line))>>

\* re-parsing a description: its lines, each split on the first ": "; the
\* empty description has no line
Reparse(cs) ==
    LET ls == IF cs = <<>> THEN <<>> ELSE SplitLines(cs, <<>>)
    IN [i \in DOMAIN ls |-> SplitLine(ls[i])]

\* each text of an object without padding, with the keys and str(values) of
\* its members in insertion order
Membership ==
    {<<Serialize(d, st), [i \in DOMAIN d |-> <<d[i].key, d[i].value.str>>]>> :
        d \in Objects, st \in Styles}

\* --------------------------------------------------------------------- C12
\* C12: for every flat JSON object given as input_query, re-parsing the
\* normalized description (split on newline, then on the first ": ") gives
\* back the keys of the object, in order, with their values.
C12_RoundTrip ==
    \A p \in Runs :
        (Normalized(p) /\ step[p].input_query.kind = "str"
                       /\ step[p].input_query.chars \in ObjectTexts) =>
            /\ character_prompt[p].kind = "str"
            /\ <<step[p].input_query.chars, Reparse(character_prompt[p].chars)>>
                   \in Membership

\* --------------------------------------------------------------------- C13
\* the description run p passed to generate_image
Described(p) == CallsOf(p, "generate_image")[1].prompt

\* C13: the description passed to generate_image is, for a payload that
\* starts with '{', ends with '}' and is the text of an object, the "key:
\* value" lines of the object in insertion order joined by newline, and for
\* every other payload the payload itself, unchanged.
C13_NormalizerResult ==
    \A p \in Runs :
        HasGenerated(p) =>
            LET q == step[p].input_query
            IN IF q.kind = "str" /\ q.chars \in ObjectTexts
               THEN /\ Described(p).kind = "str"
                    /\ <<q.chars, Described(p).chars>> \in Rendering
               ELSE Described(p) = q

\* generate_image was called with "hair: red\neyes: blue" for the payload
\* {"hair": "red", "eyes": "blue"}
C13_Witness ==
    \E p \in Runs :
        /\ HasGenerated(p)
        /\ step[p].input_query.chars =
              <<"{", Quote>> \o Chars_hair \o <<Quote, ":", " ", Quote>> \o Chars_red
              \o <<Quote, ",", " ", Quote>> \o Chars_eyes
              \o <<Quote, ":", " ", Quote>> \o Chars_blue \o <<Quote, "}">>
        /\ Described(p).chars =
              Chars_hair \o <<":", " ">> \o Chars_red \o <<"\n">>
              \o Chars_eyes \o <<":", " ">> \o Chars_blue

\* --------------------------------------------------------------------- C15
\* C15: a payload whose trimmed form is the text of a flat JSON object,
\* whitespace around the braces included, is normalized to the "key: value"
\* lines of the object and not passed through as free-form text.
C15_TrimmedClassification ==
    \A p \in Runs :
        (Normalized(p) /\ step[p].input_query.kind = "str"
                       /\ step[p].input_query.chars \in PaddedObjectTexts) =>
            /\ character_prompt[p].kind = "str"
            /\ <<step[p].input_query.chars, character_prompt[p].chars>> \in Rendering

\* --------------------------------------------------------------------- C14
\* the operations run p called, in order
OpsOf(p) == [i \in DOMAIN calls[p] |-> calls[p][i].op]

\* the operations of a run that goes through every stage
StageOrder ==
    <<"get_step", "log_task", "generate_image", "upload", "update_step", "log_task">>

\* a is a prefix of b
IsPrefix(a, b) == Len(a) <= Len(b) /\ a = SubSeq(b, 1, Len(a))

\* C14: the calls of one run follow the order get_step, start log,
\* generate_image, upload, update_step, completion log, cut short by at most
\* one error log: the upload is called with the image generate_image
\* returned, update_step with the reference the upload returned, the
\* completion log is emitted only when the gateway has applied the update,
\* and after a validation, generation, upload or update failure no later
\* stage is called.
C14_StageOrder ==
    \A p \in Runs :
        LET n == Len(calls[p])
            ops == OpsOf(p)
        IN /\ \/ IsPrefix(ops, StageOrder)
              \/ /\ n >= 3
                 /\ IsPrefix(SubSeq(ops, 1, n - 1), StageOrder)
                 /\ calls[p][n].op = "log_task"
                 /\ calls[p][n].level = "error"
           /\ \A i \in 1..n :
                 /\ ops[i] = "generate_image" =>
                       /\ calls[p][i - 1] = StartLog(p)
                       /\ Truthy(character_prompt[p])
                 /\ ops[i] = "upload" =>
                       /\ image[p] # <<>>
                       /\ calls[p][i].image = image[p]
                       /\ image[p] = ImageOf(calls[p][i - 1].prompt)
                       /\ e[p] \notin {"GenerationError", "TypeError"}
                 /\ ops[i] = "update_step" =>
                       /\ ipfs_url[p] # <<>>
                       /\ calls[p][i].step.output_artifacts = <<ipfs_url[p]>>
                       /\ ipfs_url[p] = get_ipfs_url(CidOf(calls[p][i - 1].image))
                       /\ e[p] \notin CapabilityErrors
                 /\ calls[p][i] = DoneLog(p) =>
                       /\ ops[i - 1] = "update_step"
                       /\ steps[data[p].step_id].step_status = Completed
                       /\ steps[data[p].step_id].output_artifacts = <<ipfs_url[p]>>
                       /\ e[p] \notin CapabilityErrors

\* one run went through every stage and returned, another was cut short by
\* a failing upload
C14_Witness ==
    \E p, q \in Runs :
        /\ pc[p] = "returned"
        /\ OpsOf(p) = StageOrder
        /\ pc[q] = "returned"
        /\ e[q] \in UploadErrors
        /\ OpsOf(q) = <<"get_step", "log_task", "generate_image", "upload", "log_task">>

\* --------------------------------------------------------------------- C16
\* run p has returned from a Pending step and none of its gateway calls
\* failed
ReturnedWithGatewayOk(p) ==
    /\ pc[p] = "returned"
    /\ step[p].step_status = Pending
    /\ exc[p] = ""
    /\ e[p] # "ProtocolError"

\* C16: a run on a Pending step in which every gateway call succeeded has
\* emitted exactly two log entries once it returned, whichever path it took:
\* first the info log "Starting image generation..." without task_status,
\* then, as its last call, a log with task_status Completed or Failed.
C16_TwoLogs ==
    \A p \in Runs :
        ReturnedWithGatewayOk(p) =>
            /\ Len(LogCalls(p)) = 2
            /\ LogCalls(p)[1].message = <<"Starting image generation...">>
            /\ LogCalls(p)[1].level = "info"
            /\ LogCalls(p)[1].task_status = "none"
            /\ calls[p][2] = LogCalls(p)[1]
            /\ LogCalls(p)[2].task_status \in {Completed, Failed}
            /\ calls[p][Len(calls[p])] = LogCalls(p)[2]
            /\ LogCalls(p)[2].task_status = Completed <=>
                  (e[p] = "" /\ Truthy(character_prompt[p]))

\* a run whose generation failed and a run that completed its step have both
\* returned with every gateway call answered
C16_Witness ==
    \E p, q \in Runs :
        /\ ReturnedWithGatewayOk(p)
        /\ e[p] \in {"GenerationError", "TypeError"}
        /\ ReturnedWithGatewayOk(q)
        /\ LogCalls(q)[2].task_status = Completed

\* --------------------------------------------------------------------- C17
\* run p is between its generate_image invocation and its update_step call
InCriticalStretch(p) == pc[p] \in {"generating", "upload", "update"}

\* the positions at which run() is suspended in an await of log_task
AwaitPoints ==
    {"await_start_log", "await_validation_log", "await_completion_log",
     "await_error_log"}

\* C17: from the invocation of generate_image to the return of update_step
\* the event loop stays with the run, and no other run makes a call or moves
\* (a newly delivered event is only queued); a run gives up the event loop
\* only by awaiting a log_task call or by leaving run().
C17_NoInterleaving ==
    /\ [](\A p \in Runs : InCriticalStretch(p) => running = p)
    /\ [][\A p \in Runs :
            InCriticalStretch(p) =>
                /\ running' = p \/ ~InCriticalStretch(p)'
                /\ \A q \in Runs \ {p} :
                      /\ calls'[q] = calls[q]
                      /\ pc'[q] = pc[q] \/ (pc[q] = "undelivered" /\ pc'[q] = "queued")]_vars
    /\ [][\A p \in Runs :
            (running = p /\ running' # p) =>
                \/ Finished(p)'
                \/ /\ pc'[p] \in AwaitPoints
                   /\ calls'[p] # calls[p]
                   /\ calls'[p][Len(calls'[p])].op = "log_task"]_vars

\* a run is about to call update_step while another, whose start log has
\* been answered, is runnable and has to wait
C17_Witness ==
    \E p, q \in Runs :
        /\ p # q
        /\ pc[p] = "update"
        /\ pc[q] = "await_start_log" /\ io[q] = "answered"
        /\ \E i \in DOMAIN ready : ready[i] = q

\* --------------------------------------------------------------------- C18
\* the gateway applies an update_step call of run p in this step
UpdateApplied(p) == pc[p] = "update" /\ pc'[p] = "completion_log"

\* C18: once the gateway has applied a Completed update to a step, the step
\* stays Completed, every event for it that is delivered afterwards is a
\* no-op (its run reads the step as Completed and makes no other call), and
\* no update is applied to the step any more, so that its output_artifacts
\* are never overwritten.
C18_IdempotentRedelivery ==
    /\ [][\A s \in StepIds :
            steps[s].step_status = Completed => steps'[s].step_status = Completed]_vars
    /\ [][\A p \in Runs :
            (pc[p] \in {"undelivered", "queued"} /\ pc'[p] = "check"
                /\ steps[data'[p].step_id].step_status = Completed) =>
                step'[p].step_status = Completed]_vars
    /\ [](\A p \in Runs :
            (Fetched(p) /\ step[p].step_status = Completed) =>
                calls[p] = <<GetStepCall(data[p].step_id)>>)
    /\ [][\A p \in Runs :
            UpdateApplied(p) =>
                steps[data[p].step_id].step_status # Completed]_vars

\* --------------------------------------------------------------------- C19
\* run p has been through its upload
Uploaded(p) == Len(CallsOf(p, "upload")) > 0

\* C19: after upload_image_to_ipfs, on every exit path (the pin succeeded,
\* the pin failed, saving the image failed), the file named by filename does
\* not exist, also when two steps of one task, which share the filename, are
\* uploaded one after the other.
C19_NoTempFileLeft ==
    \A p \in Runs : Uploaded(p) => TempFile(p) \notin files

====
